---- MODULE Spec2Model ----
(***************************************************************************)
(* Credential lifecycle of the ricochet CLI: the multi-server Config store *)
(* (src/src/config.rs), server resolution, and the login / logout flows    *)
(* with the OAuth callback listener (src/src/commands/auth/login.rs).      *)
(***************************************************************************)
EXTENDS Integers, Sequences, FiniteSets, TLC

\* ------------------------------------------------------------------------
\* Bounds of the model
\* ------------------------------------------------------------------------
\* largest number of entries in a store drawn by an initial state
MaxServers == 2

\* largest number of store operations (Config method calls, login, logout)
\* after load() in the life-cycle specification
MaxOps == 1
\* time by which one sleep of the OAuth wait loop overshoots the 100 ms it
\* asked for, in milliseconds (the process is not scheduled for that long)
Overshoot == 299900
\* longest key handed to the print statements
MaxKeyLen == 13

\* ------------------------------------------------------------------------
\* Program constants
\* ------------------------------------------------------------------------
\* Duration::from_secs(300), in milliseconds
TimeoutMs == 300000
\* Duration::from_millis(100)
PollMs == 100
\* number of characters of a key that login prints
PrefixLen == 12

\* ------------------------------------------------------------------------
\* Value universe
\* ------------------------------------------------------------------------
\* Option::None
NONE == "None"

\* parsed Url values, in the normalised form Url::as_str() prints
UL == "http://localhost:3000/"
UP == "https://prod.ricochet.com/"
UW == "https://www.example.com/"
Urls == {UL, UP, UW}
\* URLs of the entries an initial store holds
StoreUrls == {UL, UP}

\* entry names
Names == {"default", "local", "prod"}

\* API keys: K1 is the key stored before the run, K2 a key obtained during it,
\* KE the value of RICOCHET_API_KEY
K1 == "rico_stored_key_0001"
K2 == "rico_fresh_key_0002"
KE == "rico_env_override"
Keys == {K1, K2, KE}
\* an opaque session token (no rico_ prefix)
SESS == "tower-session-abc"

\* strings a user passes as --server / RICOCHET_SERVER
RawUrlStrings == {"http://localhost:3000/", "https://prod.ricochet.com",
                  "https://www.example.com", "http://"}
RefStrings == Names \cup RawUrlStrings \cup {"ghost"}

\* str.starts_with("http://") || str.starts_with("https://"): the strings a
\* user types and the strings Url::as_str() prints
StartsWithHttp(s) == s \in RawUrlStrings \cup Urls

\* token.starts_with("rico_")
StartsWithRico(s) == s \in Keys

\* Url::parse on the strings of the universe: scheme and host are kept, an
\* empty path becomes "/", and a URL without a host is rejected
UrlParse(s) ==
    CASE s = "http://localhost:3000/"    -> [ok |-> TRUE, url |-> UL]
      [] s = "https://prod.ricochet.com" -> [ok |-> TRUE, url |-> UP]
      [] s = "https://www.example.com"   -> [ok |-> TRUE, url |-> UW]
      [] s \in Urls                       -> [ok |-> TRUE, url |-> s]
      [] OTHER                           -> [ok |-> FALSE, url |-> NONE]

\* Url::host_str() split on '.'
HostParts(u) ==
    CASE u = UL -> <<"localhost">>
      [] u = UP -> <<"prod", "ricochet", "com">>
      [] u = UW -> <<"www", "example", "com">>
      [] OTHER  -> <<>>

parse_server_url(s) ==
    IF ~StartsWithHttp(s) THEN [ok |-> FALSE, url |-> NONE] ELSE UrlParse(s)

\* ------------------------------------------------------------------------
\* Config (the credential store)
\* ------------------------------------------------------------------------
ServerConfig(u, k) == [url |-> u, api_key |-> k]

\* the empty servers map
NoServers == [n \in {} |-> ServerConfig(UL, NONE)]

MkConfig(legacyUrl, legacyKey, servers, def) ==
    [server |-> legacyUrl, api_key |-> legacyKey, servers |-> servers,
     default_server |-> def]

ConfigDefault ==
    MkConfig(NONE, NONE, [n \in {"default"} |-> ServerConfig(UL, NONE)], "default")

\* HashMap::insert
MapInsert(m, n, v) == [x \in (DOMAIN m) \cup {n} |-> IF x = n THEN v ELSE m[x]]
\* HashMap::remove
MapRemove(m, n) == [x \in (DOMAIN m) \ {n} |-> m[x]]

\* add_server that makes every added entry the default
add_server_AlwaysDefault(c, name, url, key) ==
    [c EXCEPT !.servers = MapInsert(c.servers, name, ServerConfig(url, key)),
              !.default_server = name]

add_server(c, name, url, key) ==
    [c EXCEPT !.servers = MapInsert(c.servers, name, ServerConfig(url, key)),
              !.default_server = IF c.default_server = NONE THEN name
                                 ELSE c.default_server]

\* remove_server without the "clear default if we removed it" step
remove_server_KeepDefault(c, name) ==
    IF name \notin DOMAIN c.servers
    THEN [ok |-> FALSE, ret |-> FALSE, cfg |-> c]
    ELSE [ok |-> TRUE,
          ret |-> (c.default_server = name),
          cfg |-> [c EXCEPT !.servers = MapRemove(c.servers, name)]]

\* result: ok = FALSE is the "not found" error; ret is the returned bool
remove_server(c, name) ==
    IF name \notin DOMAIN c.servers
    THEN [ok |-> FALSE, ret |-> FALSE, cfg |-> c]
    ELSE [ok |-> TRUE,
          ret |-> (c.default_server = name),
          cfg |-> [c EXCEPT !.servers = MapRemove(c.servers, name),
                            !.default_server = IF c.default_server = name
                                               THEN NONE ELSE c.default_server]]

\* set_default_server that accepts a name that is not an entry
set_default_server_Unchecked(c, name) ==
    [ok |-> TRUE, cfg |-> [c EXCEPT !.default_server = name]]

set_default_server(c, name) ==
    IF name \notin DOMAIN c.servers
    THEN [ok |-> FALSE, cfg |-> c]
    ELSE [ok |-> TRUE, cfg |-> [c EXCEPT !.default_server = name]]

\* migration that leaves default_server as the record had it
migrate_legacy_config_KeepDefault(c) ==
    IF c.server # NONE
    THEN [c EXCEPT !.server = NONE, !.api_key = NONE,
                   !.servers = MapInsert(c.servers, "default",
                                         ServerConfig(c.server, c.api_key))]
    ELSE c

\* migration that copies the legacy fields without taking them
migrate_legacy_config_KeepLegacy(c) ==
    IF c.server # NONE
    THEN [c EXCEPT !.servers = MapInsert(c.servers, "default",
                                         ServerConfig(c.server, c.api_key)),
                   !.default_server = "default"]
    ELSE c

migrate_legacy_config(c) ==
    IF c.server # NONE
    THEN [c EXCEPT !.server = NONE, !.api_key = NONE,
                   !.servers = MapInsert(c.servers, "default",
                                         ServerConfig(c.server, c.api_key)),
                   !.default_server = "default"]
    ELSE c

\* ------------------------------------------------------------------------
\* Resolution (Config::resolve_server and helpers).  A HashMap is iterated in
\* an unspecified order, so an operator that takes "the first match" of an
\* iteration yields the set of results the iteration orders can produce.
\* ------------------------------------------------------------------------
\* Ok(ServerConfig); via records the return statement that produced it
Resolved(sc, via) ==
    [ok |-> TRUE, url |-> sc.url, api_key |-> sc.api_key, via |-> via, listed |-> {}]
\* Err(..); listed is the set of names the message enumerates
Failure(via, names) ==
    [ok |-> FALSE, url |-> NONE, api_key |-> NONE, via |-> via, listed |-> names]

apply_env_key_override(e, sc) ==
    IF e.api_key # NONE THEN [sc EXCEPT !.api_key = e.api_key] ELSE sc

resolve_server_string(c, e, s) ==
    IF s \in DOMAIN c.servers
    THEN {Resolved(apply_env_key_override(e, c.servers[s]), "name")}
    ELSE IF StartsWithHttp(s)
    THEN LET p == parse_server_url(s)
             M == {n \in DOMAIN c.servers : c.servers[n].url = p.url}
         IN  IF ~p.ok THEN {Failure("bad_url", {})}
             ELSE IF M # {}
             THEN {Resolved(apply_env_key_override(e, c.servers[n]), "url") : n \in M}
             ELSE {Resolved(ServerConfig(p.url, NONE), "raw_url")}
    ELSE {Failure("not_found", DOMAIN c.servers)}

\* get_default_server without the fallback to the first available server
get_default_server_NoFallback(c, e) ==
    IF c.default_server # NONE /\ c.default_server \in DOMAIN c.servers
    THEN {Resolved(apply_env_key_override(e, c.servers[c.default_server]), "default")}
    ELSE {Failure("no_servers", {})}

get_default_server(c, e) ==
    IF c.default_server # NONE /\ c.default_server \in DOMAIN c.servers
    THEN {Resolved(apply_env_key_override(e, c.servers[c.default_server]), "default")}
    ELSE IF DOMAIN c.servers # {}
    THEN {Resolved(apply_env_key_override(e, c.servers[n]), "first") : n \in DOMAIN c.servers}
    ELSE {Failure("no_servers", {})}

\* resolve_server with the explicit reference checked before RICOCHET_SERVER
resolve_server_RefFirst(c, e, ref) ==
    IF ref # NONE THEN resolve_server_string(c, e, ref)
    ELSE IF e.server # NONE THEN resolve_server_string(c, e, e.server)
    ELSE get_default_server(c, e)

resolve_server(c, e, ref) ==
    IF e.server # NONE THEN resolve_server_string(c, e, e.server)
    ELSE IF ref # NONE THEN resolve_server_string(c, e, ref)
    ELSE get_default_server(c, e)

\* ------------------------------------------------------------------------
\* Login helpers (src/src/commands/auth/login.rs)
\* ------------------------------------------------------------------------
\* Config::default_server(): the default_server field as Option<&str>
default_server(c) == c.default_server

Target(u, n) == [ok |-> TRUE, url |-> u, name |-> n]
NoTarget == [ok |-> FALSE, url |-> NONE, name |-> NONE]

\* the (server_url, server_name) pairs resolve_login_server can return
resolve_login_server(c, e, ref) ==
    IF ref # NONE
    THEN IF ref \in DOMAIN c.servers
         THEN {Target(c.servers[ref].url, ref)}
         ELSE IF StartsWithHttp(ref)
         THEN LET p == parse_server_url(ref)
                  M == {n \in DOMAIN c.servers : c.servers[n].url = p.url}
              IN  IF ~p.ok THEN {NoTarget}
                  ELSE IF M # {} THEN {Target(p.url, n) : n \in M}
                  ELSE {Target(p.url, NONE)}
         ELSE {NoTarget}
    ELSE {IF r.ok THEN Target(r.url, default_server(c)) ELSE NoTarget :
            r \in resolve_server(c, e, NONE)}

\* Url::host_str()
HostStr(u) ==
    CASE u = UL -> "localhost"
      [] u = UP -> "prod.ricochet.com"
      [] u = UW -> "www.example.com"
      [] OTHER  -> NONE

\* determine_server_name that derives the name from the host whatever it is given
determine_server_name_HostOnly(c, url, name) ==
    IF HostStr(url) # NONE /\ HostStr(url) \in {"localhost", "127.0.0.1"}
    THEN {"local"}
    ELSE IF HostStr(url) # NONE /\ Len(HostParts(url)) > 0 /\ HostParts(url)[1] # "www"
    THEN {HostParts(url)[1]}
    ELSE {"default"}

\* the names determine_server_name can return
determine_server_name(c, url, name) ==
    LET M == {n \in DOMAIN c.servers : c.servers[n].url = url}
        parts == HostParts(url)
    IN  IF name # NONE THEN {name}
        ELSE IF M # {} THEN M
        ELSE IF HostStr(url) # NONE /\ HostStr(url) \in {"localhost", "127.0.0.1"}
        THEN {"local"}
        ELSE IF HostStr(url) # NONE /\ Len(parts) > 0 /\ parts[1] # "www"
        THEN {parts[1]}
        ELSE {"default"}

is_headless(e) ==
    IF e.linux
    THEN IF e.ssh /\ ~e.display /\ ~e.wayland THEN TRUE
         ELSE ~e.display /\ ~e.wayland
    ELSE FALSE

\* query strings the browser side can send to /callback
Requests == [error : {NONE, "access_denied"}, api_key : {NONE, K2}, session : {NONE, SESS}]

\* callback handler that looks for api_key before error
callback_handler_KeyFirst(a, req) ==
    IF req.api_key # NONE
    THEN [a EXCEPT !.session_cookie = req.api_key, !.received_callback = TRUE]
    ELSE IF req.error # NONE
    THEN [a EXCEPT !.error = req.error, !.received_callback = TRUE]
    ELSE IF req.session # NONE
    THEN [a EXCEPT !.session_cookie = req.session, !.received_callback = TRUE]
    ELSE [a EXCEPT !.received_callback = TRUE]

\* callback handler that starts from an empty AuthState at every request
callback_handler_Replace(a, req) ==
    IF req.error # NONE
    THEN [received_callback |-> TRUE, session_cookie |-> NONE, error |-> req.error]
    ELSE IF req.api_key # NONE
    THEN [received_callback |-> TRUE, session_cookie |-> req.api_key, error |-> NONE]
    ELSE IF req.session # NONE
    THEN [received_callback |-> TRUE, session_cookie |-> req.session, error |-> NONE]
    ELSE [received_callback |-> TRUE, session_cookie |-> NONE, error |-> NONE]

\* the callback route's handler: AuthState after one request
callback_handler(a, req) ==
    IF req.error # NONE
    THEN [a EXCEPT !.error = req.error, !.received_callback = TRUE]
    ELSE IF req.api_key # NONE
    THEN [a EXCEPT !.session_cookie = req.api_key, !.received_callback = TRUE]
    ELSE IF req.session # NONE
    THEN [a EXCEPT !.session_cookie = req.session, !.received_callback = TRUE]
    ELSE [a EXCEPT !.received_callback = TRUE]

\* a check that takes a failed validation call for an accepted key
existing_key_accepted_UnlessRejected(v) == v # "invalid"

\* the already-authenticated check never taken
existing_key_accepted_Never(v) == FALSE

\* client.validate_key().await.unwrap_or(false), v the answer of the call
existing_key_accepted(v) == v = "valid"

\* timeout test with >= for >
timed_out_AtTimeout(e) == e >= TimeoutMs

\* start.elapsed() > timeout
timed_out(e) == e > TimeoutMs

\* headless tested before the supplied key
login_method_HeadlessFirst(key, e) ==
    IF is_headless(e) THEN "Headless"
    ELSE IF key # NONE THEN "DirectKey"
    ELSE "OAuth"

\* login.rs 78-100: how login obtains the key
login_method(key, e) ==
    IF key # NONE THEN "DirectKey"
    ELSE IF is_headless(e) THEN "Headless"
    ELSE "OAuth"

\* login.rs 262-297: what login does with the AuthState it reads after the loop
payload_state(a) ==
    IF a.session_cookie # NONE
    THEN IF StartsWithRico(a.session_cookie)
         THEN "DirectApiKeyReceived" ELSE "SessionReceived"
    ELSE "NoPayloadFallback"

\* login.rs 496-520: the entry names logout can resolve its reference to
logout_target(c, ref) ==
    IF ref # NONE
    THEN IF ref \in DOMAIN c.servers
         THEN {[ok |-> TRUE, name |-> ref]}
         ELSE IF StartsWithHttp(ref)
         THEN LET p == parse_server_url(ref)
                  M == {n \in DOMAIN c.servers : c.servers[n].url = p.url}
              IN  IF ~p.ok \/ M = {} THEN {[ok |-> FALSE, name |-> NONE]}
                  ELSE {[ok |-> TRUE, name |-> n] : n \in M}
         ELSE {[ok |-> FALSE, name |-> NONE]}
    ELSE IF default_server(c) # NONE
         THEN {[ok |-> TRUE, name |-> default_server(c)]}
         ELSE {[ok |-> FALSE, name |-> NONE]}

\* logout that drops the entry instead of clearing its key
clear_api_key_RemoveEntry(c, name) == [c EXCEPT !.servers = MapRemove(c.servers, name)]

\* login.rs 522-537: servers.get_mut(name), then server_config.api_key = None
clear_api_key(c, name) == [c EXCEPT !.servers[name].api_key = NONE]

\* the "..." of the format strings
Dots == <<".", ".", ".">>

\* key prefix cut after 8 characters
key_prefix_Eight(key) == IF Len(key) > PrefixLen THEN SubSeq(key, 1, 8) ELSE key

\* login.rs 481: if key.len() > 12 { &key[..12] } else { &key }
key_prefix(key) == IF Len(key) > PrefixLen THEN SubSeq(key, 1, PrefixLen) ELSE key

\* login.rs 482 and 394: println!("API key: {}...", key_prefix)
api_key_line(key) == key_prefix(key) \o Dots

\* login.rs 180-184: the api_key parameter as the callback handler logs it
callback_debug(key) ==
    IF Len(key) > PrefixLen THEN SubSeq(key, 1, PrefixLen) \o Dots ELSE key

\* length of the strings of the universe, in bytes
StrLen(s) ==
    CASE s = "default" -> 7  [] s = "local" -> 5  [] s = "prod" -> 4
      [] s = UL -> 22  [] s = UP -> 26  [] s = UW -> 24
      [] s = K1 -> 20  [] s = K2 -> 19  [] s = KE -> 17
      [] OTHER -> 0

RECURSIVE SumOver(_, _)
SumOver(f, S) ==
    IF S = {} THEN 0 ELSE LET x == CHOOSE y \in S : TRUE IN f[x] + SumOver(f, S \ {x})

\* length of toml::to_string_pretty(config): the default_server line, then
\* per entry the [servers.<name>] header, the url line and the api_key line
TextLen(c) ==
    (IF c.default_server # NONE THEN 20 + StrLen(c.default_server) ELSE 0)
    + (IF c.server # NONE THEN 12 + StrLen(c.server) ELSE 0)
    + (IF c.api_key # NONE THEN 13 + StrLen(c.api_key) ELSE 0)
    + SumOver([n \in DOMAIN c.servers |->
                  12 + StrLen(n) + 9 + StrLen(c.servers[n].url)
                  + (IF c.servers[n].api_key # NONE
                     THEN 13 + StrLen(c.servers[n].api_key) ELSE 0)],
              DOMAIN c.servers)

\* no concurrent invocations
NoCli == [procs |-> <<>>, file |-> [state |-> "whole", content |-> ConfigDefault, len |-> 0],
          lastSaver |-> 0]

\* nothing printed yet
NoOutput == [key |-> <<>>, text |-> <<>>, where |-> "none"]

\* config.save() whose error is dropped
save_ok_Ignored(saved) == TRUE

\* config.save()? : the command goes on only if the save succeeded
save_ok(saved) == saved

\* Config::save writes the whole store; Config::load parses it back
ToFile(c) == [exists |-> TRUE, content |-> c]

\* ------------------------------------------------------------------------
\* State
\* ------------------------------------------------------------------------
VARIABLES
    config,     \* the in-memory Config of the running process
    disk,       \* the config file: [exists, content]
    env,        \* process environment: RICOCHET_SERVER, RICOCHET_API_KEY, display
    pc,         \* position of the running command
    last,       \* the last Config method call, its result, and the call before it
    res,        \* the last resolve_server call and its result
    lg,         \* login's arguments and locals: server_ref, api_key, server_url, server_name
    auth,       \* AuthState shared by the callback handler and the wait loop
    listener,   \* the callback listener task: "none", "running" or "aborted"
    elapsed,    \* start.elapsed() of the wait loop, in milliseconds
    h,          \* history of the running login (what it validated, asked, wrote)
    origin,     \* the config file as load() found it
    nops,       \* store operations since load()
    out,        \* a key handed to a print statement and the text printed for it
    cli,        \* two CLI invocations that run at once, and the file they share
    mx          \* the AuthState mutex: the tasks that hold a guard, and where each is

storeOps == <<last, res, origin, out, cli, mx>>
loginVars == <<lg, auth, listener, elapsed, h>>
vars == <<config, disk, env, pc, last, res, lg, auth, listener, elapsed, h, origin, nops, out, cli, mx>>

\* the stores an initial state draws from: at most MaxServers entries
EntryValues == {ServerConfig(u, k) : u \in StoreUrls, k \in {NONE, K1}}
ServerMaps ==
    UNION {[S -> EntryValues] : S \in {T \in SUBSET Names : Cardinality(T) <= MaxServers}}
\* stores without legacy fields, default_server absent or any name
Stores == {MkConfig(NONE, NONE, m, d) : m \in ServerMaps, d \in Names \cup {NONE}}
\* default_server absent or the name of an entry
DefaultValid(c) == c.default_server = NONE \/ c.default_server \in DOMAIN c.servers
ValidStores == {c \in Stores : DefaultValid(c)}

\* display environments: target_os, DISPLAY, WAYLAND_DISPLAY, SSH_CLIENT / SSH_TTY
Desktop == [linux |-> TRUE, display |-> TRUE, wayland |-> FALSE, ssh |-> FALSE]
SshNoDisplay == [linux |-> TRUE, display |-> FALSE, wayland |-> FALSE, ssh |-> TRUE]
NotLinux == [linux |-> FALSE, display |-> FALSE, wayland |-> FALSE, ssh |-> FALSE]
MkEnv(server, key, d) ==
    [server |-> server, api_key |-> key, linux |-> d.linux, display |-> d.display,
     wayland |-> d.wayland, ssh |-> d.ssh]
NoEnv == MkEnv(NONE, NONE, Desktop)
NoFile == [exists |-> FALSE, content |-> ConfigDefault]
NoLogin == [ref |-> NONE, key |-> NONE, url |-> NONE, name |-> NONE]
NoAuth == [received_callback |-> FALSE, session_cookie |-> NONE, error |-> NONE]
\* the tasks that lock AuthState: the wait loop and two connection tasks
\* serving /callback
Poller == "poller"
Handlers == {"conn1", "conn2"}
\* no OAuth attempt is under way
NoMx ==
    [inside |-> {}, ppc |-> "none", seen |-> NoAuth, seenWhole |-> NoAuth,
     hpc |-> [t \in Handlers |-> "idle"],
     req |-> [t \in Handlers |-> [error |-> NONE, api_key |-> NONE, session |-> NONE]],
     state |-> NoAuth, whole |-> NoAuth]
NoHistory ==
    [cfg0 |-> ConfigDefault, disk0 |-> NoFile, checked |-> {}, validated |-> {},
     accepted |-> {}, exchanged |-> FALSE, prompted |-> FALSE, wrote |-> {},
     existing |-> "none", why |-> "none", first |-> <<>>]
LoginIdle ==
    /\ lg = NoLogin
    /\ auth = NoAuth
    /\ listener = "none"
    /\ elapsed = 0
    /\ h = NoHistory

NoResolve == [called |-> FALSE, ref |-> NONE, result |-> Failure("none", {})]
\* A call record holds the method (op), its URL or reference argument
\* (ref), its name and key arguments, whether it returned Ok, the bool it
\* returned, the store it was called on, and, of the call before it, the
\* method, the name argument and the store that one was called on.
NoPrev == [op |-> "none", name |-> NONE, before |-> ConfigDefault]
CallOf(l) == [op |-> l.op, name |-> l.name, before |-> l.before]
NoCall ==
    [op |-> "none", ref |-> NONE, name |-> NONE, ok |-> TRUE, ret |-> FALSE,
     before |-> ConfigDefault, prev |-> NoPrev, key |-> NONE]

\* ------------------------------------------------------------------------
\* Config method calls on the in-memory store
\* ------------------------------------------------------------------------
AddServerCall ==
    /\ pc = "idle"
    /\ \E n \in Names, u \in StoreUrls, k \in {NONE, K1} :
          /\ config' = add_server(config, n, u, k)
          /\ last' = [op |-> "add_server", ref |-> u, name |-> n, ok |-> TRUE, ret |-> FALSE,
                      before |-> config,
                      prev |-> CallOf(last), key |-> k]
    /\ UNCHANGED <<disk, env, pc, res, origin, out, cli, mx, loginVars>>

RemoveServerCall ==
    /\ pc = "idle"
    /\ \E n \in Names :
          LET r == remove_server(config, n) IN
          /\ config' = r.cfg
          /\ last' = [op |-> "remove_server", ref |-> NONE, name |-> n, ok |-> r.ok, ret |-> r.ret,
                      before |-> config,
                      prev |-> CallOf(last), key |-> NONE]
    /\ UNCHANGED <<disk, env, pc, res, origin, out, cli, mx, loginVars>>

SetDefaultServerCall ==
    /\ pc = "idle"
    /\ \E n \in Names :
          LET r == set_default_server(config, n) IN
          /\ config' = r.cfg
          /\ last' = [op |-> "set_default_server", ref |-> NONE, name |-> n, ok |-> r.ok,
                      ret |-> FALSE, before |-> config,
                      prev |-> CallOf(last), key |-> NONE]
    /\ UNCHANGED <<disk, env, pc, res, origin, out, cli, mx, loginVars>>

\* Specification of the store methods alone, from any store whose
\* default_server is absent or names an entry
InitStore ==
    /\ config \in ValidStores
    /\ disk = NoFile
    /\ env = NoEnv
    /\ pc = "idle"
    /\ last = NoCall
    /\ res = NoResolve
    /\ origin = NoFile
    /\ nops = 0
    /\ out = NoOutput
    /\ cli = NoCli
    /\ mx = NoMx
    /\ LoginIdle

NextStore ==
    \/ AddServerCall /\ UNCHANGED nops
    \/ RemoveServerCall /\ UNCHANGED nops
    \/ SetDefaultServerCall /\ UNCHANGED nops

SpecStore == InitStore /\ [][NextStore]_vars

\* ------------------------------------------------------------------------
\* C2: after any sequence of add_server, remove_server and set_default_server
\* calls (successful or failed) from a store whose default_server is absent or
\* names an entry, default_server is absent or names a current entry; and a
\* successful remove_server of the default entry leaves default_server absent.
\* ------------------------------------------------------------------------
C2_DefaultNamesEntry ==
    /\ DefaultValid(config)
    /\ (last.op = "remove_server" /\ last.ok /\ last.before.default_server = last.name)
          => config.default_server = NONE

\* a default entry was removed while another entry remained
C2_Witness ==
    /\ last.op = "remove_server" /\ last.ok
    /\ last.before.default_server = last.name
    /\ DOMAIN config.servers # {}

\* ------------------------------------------------------------------------
\* Resolution of a reference against a store and an environment
\* ------------------------------------------------------------------------
ResolveCall ==
    /\ pc = "idle"
    /\ \E ref \in RefStrings \cup {NONE} :
       \E r \in resolve_server(config, env, ref) :
          res' = [called |-> TRUE, ref |-> ref, result |-> r]
    /\ UNCHANGED <<config, disk, env, pc, last, origin, out, cli, mx, loginVars>>

Envs == {MkEnv(sv, k, Desktop) : sv \in RefStrings \cup {NONE}, k \in {NONE, KE}}

InitResolve ==
    /\ config \in Stores
    /\ disk = NoFile
    /\ env \in Envs
    /\ pc = "idle"
    /\ last = NoCall
    /\ res = NoResolve
    /\ origin = NoFile
    /\ nops = 0
    /\ out = NoOutput
    /\ cli = NoCli
    /\ mx = NoMx
    /\ LoginIdle

NextResolve == ResolveCall /\ UNCHANGED nops

SpecResolve == InitResolve /\ [][NextResolve]_vars

\* ------------------------------------------------------------------------
\* C3: resolve_server(ref) picks its reference by strict precedence: the
\* RICOCHET_SERVER value when set, whatever ref is; else ref when given; else
\* the entry default_server names.
\* ------------------------------------------------------------------------
C3_Precedence ==
    res.called =>
       /\ env.server # NONE =>
             /\ res.result \in resolve_server_string(config, env, env.server)
             /\ env.server \in DOMAIN config.servers =>
                   res.result.ok /\ res.result.url = config.servers[env.server].url
       /\ (env.server = NONE /\ res.ref # NONE) =>
             /\ res.result \in resolve_server_string(config, env, res.ref)
             /\ res.ref \in DOMAIN config.servers =>
                   res.result.ok /\ res.result.url = config.servers[res.ref].url
       /\ (env.server = NONE /\ res.ref = NONE
             /\ config.default_server \in DOMAIN config.servers) =>
             res.result = Resolved(apply_env_key_override(env,
                                     config.servers[config.default_server]), "default")

\* the override names one entry, the reference another one with another URL,
\* and the result is the override's entry
C3_Witness ==
    /\ res.called
    /\ env.server \in DOMAIN config.servers
    /\ res.ref \in DOMAIN config.servers
    /\ config.servers[res.ref].url # config.servers[env.server].url
    /\ res.result.url = config.servers[env.server].url

\* ------------------------------------------------------------------------
\* C4: with RICOCHET_API_KEY set, every successful resolution returns the
\* override as its api_key, on every path (entry name, entry URL, raw URL that
\* matches no entry, default_server, first-entry fallback).
\* ------------------------------------------------------------------------
C4_OverrideOnEveryPath ==
    (res.called /\ env.api_key # NONE /\ res.result.ok) => res.result.api_key = env.api_key

\* ------------------------------------------------------------------------
\* login (src/src/commands/auth/login.rs), one action per state of the flow
\* ------------------------------------------------------------------------
\* keys typed at the Password prompt, keys the key-issuance endpoint returns
EnteredKeys == {K2}
IssuedKeys == {K2}
\* how long one tokio::time::sleep(100 ms) of the wait loop takes
SleepMs == PollMs + Overshoot
\* answers of GET /api/v0/check_key as validate_key() reports them:
\* Ok(true), Ok(false), Err(network)
ValidationOutcomes == {"valid", "invalid", "error"}

Terminal == {"Authenticated", "Failed"}
\* the states of one run of login (login.rs 36-103, 144-300)
LoginStates ==
    {"CheckExisting", "AlreadyValid", "NeedsLogin", "DirectKey", "Headless", "OAuth",
     "DirectApiKeyReceived", "SessionReceived", "NoPayloadFallback", "TimedOut", "Error"}

\* login(config, server_ref, api_key) is called
LoginStart ==
    /\ pc = "idle"
    /\ \E ref \in RefStrings \cup {NONE}, key \in {NONE, K2} :
          lg' = [ref |-> ref, key |-> key, url |-> NONE, name |-> NONE]
    /\ h' = [NoHistory EXCEPT !.cfg0 = config, !.disk0 = disk]
    /\ pc' = "CheckExisting"
    /\ UNCHANGED <<config, disk, env, storeOps, auth, listener, elapsed>>

\* login.rs 44-75: resolve the target, then try the key resolution returns
CheckExisting ==
    /\ pc = "CheckExisting"
    /\ \E t \in resolve_login_server(config, env, lg.ref) :
          IF ~t.ok
          THEN /\ pc' = "Failed"
               /\ h' = [h EXCEPT !.why = "resolve"]
               /\ lg' = lg
          ELSE /\ lg' = [lg EXCEPT !.url = t.url, !.name = t.name]
               /\ \E sc \in resolve_server(config, env, lg.ref) :
                     IF sc.ok /\ sc.api_key # NONE
                     THEN \E v \in ValidationOutcomes :
                             /\ h' = [h EXCEPT
                                        !.existing = v,
                                        !.checked = {<<t.url, sc.api_key>>},
                                        !.validated = @ \cup {<<t.url, sc.api_key>>},
                                        !.accepted = IF v = "valid"
                                                     THEN @ \cup {<<t.url, sc.api_key>>}
                                                     ELSE @]
                             /\ pc' = IF existing_key_accepted(v) THEN "AlreadyValid"
                                      ELSE "NeedsLogin"
                     ELSE /\ h' = h
                          /\ pc' = "NeedsLogin"
    /\ UNCHANGED <<config, disk, env, storeOps, nops, auth, listener, elapsed>>

\* login.rs 59-68: "Already authenticated", return Ok(())
AlreadyValid ==
    /\ pc = "AlreadyValid"
    /\ pc' = "Authenticated"
    /\ h' = [h EXCEPT !.why = "already_valid"]
    /\ UNCHANGED <<config, disk, env, storeOps, nops, lg, auth, listener, elapsed>>

\* login.rs 78-100: choose how the key is obtained
NeedsLogin ==
    /\ pc = "NeedsLogin"
    /\ pc' = login_method(lg.key, env)
    /\ UNCHANGED <<config, disk, env, storeOps, nops, loginVars>>

\* validate_and_save_key that stores the key before it looks at the answer
validate_and_save_key_SaveFirst(key, hb) ==
    \E v \in ValidationOutcomes :
       LET hv == [hb EXCEPT !.validated = @ \cup {<<lg.url, key>>},
                            !.accepted = IF v = "valid" THEN @ \cup {<<lg.url, key>>}
                                         ELSE @]
       IN  \E n \in determine_server_name(config, lg.url, lg.name) :
              /\ config' = add_server(config, n, lg.url, key)
              /\ disk' = ToFile(config')
              /\ pc' = IF v = "valid" THEN "Authenticated" ELSE "Failed"
              /\ h' = [hv EXCEPT !.wrote = @ \cup {<<n, lg.url, key>>},
                                 !.why = IF v = "valid" THEN "saved"
                                         ELSE IF v = "invalid" THEN "invalid_key"
                                         ELSE "validation_error"]

\* validate_and_save_key(config, lg.url, key, lg.name), continuing history hb
validate_and_save_key(key, hb) ==
    \E v \in ValidationOutcomes :
       LET hv == [hb EXCEPT !.validated = @ \cup {<<lg.url, key>>},
                            !.accepted = IF v = "valid" THEN @ \cup {<<lg.url, key>>}
                                         ELSE @]
       IN  IF v = "valid"
           THEN \E n \in determine_server_name(config, lg.url, lg.name),
                   saved \in BOOLEAN :
                   /\ config' = add_server(config, n, lg.url, key)
                   /\ disk' = IF saved THEN ToFile(config') ELSE disk
                   /\ pc' = IF save_ok(saved) THEN "Authenticated" ELSE "Failed"
                   /\ h' = [hv EXCEPT !.wrote = @ \cup {<<n, lg.url, key>>},
                                      !.why = IF saved THEN "saved" ELSE "save_failed"]
           ELSE /\ pc' = "Failed"
                /\ h' = [hv EXCEPT !.why = IF v = "invalid" THEN "invalid_key"
                                         ELSE "validation_error"]
                /\ UNCHANGED <<config, disk>>

\* login.rs 78-80
DirectKey ==
    /\ pc = "DirectKey"
    /\ validate_and_save_key(lg.key, h)
    /\ UNCHANGED <<env, storeOps, nops, lg, auth, listener, elapsed>>

\* Password::new().interact()? followed by validate_and_save_key
PromptAndValidate ==
    \/ /\ pc' = "Failed"
       /\ h' = [h EXCEPT !.prompted = TRUE, !.why = "prompt_failed"]
       /\ UNCHANGED <<config, disk>>
    \/ \E k \in EnteredKeys : validate_and_save_key(k, [h EXCEPT !.prompted = TRUE])

\* login.rs 83-97
Headless ==
    /\ pc = "Headless"
    /\ PromptAndValidate
    /\ UNCHANGED <<env, storeOps, nops, lg, auth, listener, elapsed>>

\* login.rs 156-214: bind 127.0.0.1:0, create AuthState, spawn the listener
OAuthStart ==
    /\ pc = "OAuth" /\ listener = "none"
    /\ \/ /\ listener' = "running"
          /\ auth' = NoAuth
          /\ elapsed' = 0
          /\ UNCHANGED <<pc, h>>
       \/ /\ pc' = "Failed"
          /\ h' = [h EXCEPT !.why = "bind_failed"]
          /\ UNCHANGED <<listener, auth, elapsed>>
    /\ UNCHANGED <<config, disk, env, storeOps, nops, lg>>

\* login.rs 172-210: one request to /callback, handled under the mutex.  A
\* request accepted before server_handle.abort() is served by its own
\* connection task, so it can still be handled between the loop's break and
\* the read at line 262.
CallbackRequest(req) ==
    /\ pc = "OAuth" /\ listener \in {"running", "aborted"}
    /\ auth' = callback_handler(auth, req)
    /\ UNCHANGED <<config, disk, env, pc, storeOps, nops, lg, listener, elapsed>>

HandleCallback == \E req \in Requests : CallbackRequest(req) /\ UNCHANGED h

\* the same handler, with the first request of the attempt kept in the
\* history
HandleCallbackLogged ==
    \E req \in Requests :
       /\ CallbackRequest(req)
       /\ h' = IF h.first = <<>> THEN [h EXCEPT !.first = <<req>>] ELSE h

\* wait loop that leaves the listener running when it reports an error
Poll_ErrorKeepsListener ==
    /\ pc = "OAuth" /\ listener = "running"
    /\ IF timed_out(elapsed)
       THEN /\ listener' = "aborted"
            /\ pc' = "TimedOut"
            /\ UNCHANGED elapsed
       ELSE IF auth.received_callback
       THEN /\ listener' = IF auth.error # NONE THEN listener ELSE "aborted"
            /\ pc' = IF auth.error # NONE THEN "Error" ELSE pc
            /\ UNCHANGED elapsed
       ELSE /\ elapsed' = elapsed + SleepMs
            /\ UNCHANGED <<listener, pc>>
    /\ UNCHANGED <<config, disk, env, storeOps, nops, lg, auth, h>>

\* login.rs 239-259: one iteration of the wait loop; the listener is aborted
\* on timeout, on a recorded error and after the break
Poll ==
    /\ pc = "OAuth" /\ listener = "running"
    /\ IF timed_out(elapsed)
       THEN /\ listener' = "aborted"
            /\ pc' = "TimedOut"
            /\ UNCHANGED elapsed
       ELSE IF auth.received_callback
       THEN /\ listener' = "aborted"
            /\ pc' = IF auth.error # NONE THEN "Error" ELSE pc
            /\ UNCHANGED elapsed
       ELSE /\ elapsed' = elapsed + SleepMs
            /\ UNCHANGED <<listener, pc>>
    /\ UNCHANGED <<config, disk, env, storeOps, nops, lg, auth, h>>

\* login.rs 262-278: after the loop, lock AuthState again and act on it
Dispatch ==
    /\ pc = "OAuth" /\ listener = "aborted"
    /\ pc' = payload_state(auth)
    /\ UNCHANGED <<config, disk, env, storeOps, nops, loginVars>>

\* login.rs 240-243: bail!("Authentication timeout. Please try again.")
TimedOut ==
    /\ pc = "TimedOut"
    /\ pc' = "Failed"
    /\ h' = [h EXCEPT !.why = "timeout"]
    /\ UNCHANGED <<config, disk, env, storeOps, nops, lg, auth, listener, elapsed>>

\* login.rs 247-250: bail!("Authentication failed: {}", error)
Error ==
    /\ pc = "Error"
    /\ pc' = "Failed"
    /\ h' = [h EXCEPT !.why = "oauth_error"]
    /\ UNCHANGED <<config, disk, env, storeOps, nops, lg, auth, listener, elapsed>>

\* login.rs 265-272
DirectApiKeyReceived ==
    /\ pc = "DirectApiKeyReceived"
    /\ validate_and_save_key(auth.session_cookie, h)
    /\ UNCHANGED <<env, storeOps, nops, lg, auth, listener, elapsed>>

\* login.rs 273-277 and create_api_key_with_session (302-397)
SessionReceived ==
    /\ pc = "SessionReceived"
    /\ \/ /\ pc' = "Failed"
          /\ h' = [h EXCEPT !.exchanged = TRUE, !.why = "exchange_failed"]
          /\ UNCHANGED <<config, disk>>
       \/ \E k \in IssuedKeys, n \in determine_server_name(config, lg.url, lg.name),
             saved \in BOOLEAN :
             /\ config' = add_server(config, n, lg.url, k)
             /\ disk' = IF saved THEN ToFile(config') ELSE disk
             /\ pc' = IF save_ok(saved) THEN "Authenticated" ELSE "Failed"
             /\ h' = [h EXCEPT !.exchanged = TRUE,
                               !.wrote = @ \cup {<<n, lg.url, k>>},
                               !.why = IF saved THEN "saved" ELSE "save_failed"]
    /\ UNCHANGED <<env, storeOps, nops, lg, auth, listener, elapsed>>

\* login.rs 278-297
NoPayloadFallback ==
    /\ pc = "NoPayloadFallback"
    /\ PromptAndValidate
    /\ UNCHANGED <<env, storeOps, nops, lg, auth, listener, elapsed>>

LoginStep ==
    \/ CheckExisting \/ AlreadyValid \/ NeedsLogin \/ DirectKey \/ Headless
    \/ OAuthStart \/ HandleCallback \/ Poll \/ Dispatch \/ TimedOut \/ Error
    \/ DirectApiKeyReceived \/ SessionReceived \/ NoPayloadFallback

\* One run of login from any loaded store
LoginEnvs == {MkEnv(sv, k, d) : sv \in {NONE, "prod"}, k \in {NONE, KE},
                                d \in {Desktop, SshNoDisplay}}

Init ==
    /\ config \in Stores
    /\ disk = ToFile(config)
    /\ env \in LoginEnvs
    /\ pc = "idle"
    /\ last = NoCall
    /\ res = NoResolve
    /\ origin = disk
    /\ nops = 0
    /\ out = NoOutput
    /\ cli = NoCli
    /\ mx = NoMx
    /\ LoginIdle

Next ==
    \/ LoginStart /\ UNCHANGED nops
    \/ LoginStep

Spec == Init /\ [][Next]_vars

\* One OAuth attempt: oauth_login_with_callback(config, server, server_name)
\* called by login for the default entry or for a URL that matches no entry
OAuthTargets ==
    {[ref |-> NONE, key |-> NONE, url |-> UL, name |-> "default"],
     [ref |-> "https://prod.ricochet.com", key |-> NONE, url |-> UP, name |-> NONE]}

InitOAuth ==
    /\ config = ConfigDefault
    /\ disk = ToFile(config)
    /\ env = NoEnv
    /\ pc = "OAuth"
    /\ last = NoCall
    /\ res = NoResolve
    /\ origin = disk
    /\ nops = 0
    /\ out = NoOutput
    /\ cli = NoCli
    /\ mx = NoMx
    /\ lg \in OAuthTargets
    /\ auth = NoAuth
    /\ listener = "none"
    /\ elapsed = 0
    /\ h = [NoHistory EXCEPT !.cfg0 = config, !.disk0 = disk]

NextOAuth ==
    \/ OAuthStart
    \/ HandleCallbackLogged
    \/ Poll
    \/ Dispatch
    \/ TimedOut
    \/ Error
    \/ DirectApiKeyReceived
    \/ SessionReceived
    \/ NoPayloadFallback

SpecOAuth == InitOAuth /\ [][NextOAuth]_vars

\* the failures of login that concern a key or the OAuth attempt
KeyFailures ==
    {"invalid_key", "validation_error", "timeout", "oauth_error", "exchange_failed"}

\* ------------------------------------------------------------------------
\* C1: when login fails because a key was rejected or could not be validated,
\* because the OAuth attempt timed out or reported an error, or because the
\* session exchange failed, the in-memory store and the config file are what
\* they were when login started.
\* ------------------------------------------------------------------------
C1_FailedLoginLeavesStore ==
    (pc = "Failed" /\ h.why \in KeyFailures) => (config = h.cfg0 /\ disk = h.disk0)

\* a key delivered by the OAuth callback was rejected by the server
C1_Witness ==
    /\ pc = "Failed" /\ h.why = "invalid_key"
    /\ auth.session_cookie = K2
    /\ <<lg.url, K2>> \in h.validated

\* ------------------------------------------------------------------------
\* C5 (as claimed): once a callback request has set received_callback, no
\* later request changes AuthState.
\* ------------------------------------------------------------------------
C5_FirstRequestOnly == [][auth.received_callback => auth' = auth]_vars

\* C5 (amended): every request the callback path handles writes AuthState;
\* what was recorded is never cleared (received_callback stays set, a
\* recorded error and a recorded payload stay present), but a later request
\* may replace the payload or add an error, and login acts on AuthState as
\* it stands when login reads it.
C5_RecordedNeverCleared ==
    [][/\ pc \in LoginStates =>
            /\ auth.received_callback => auth'.received_callback
            /\ auth.error # NONE => auth'.error # NONE
            /\ auth.session_cookie # NONE => auth'.session_cookie # NONE
       /\ (pc = "OAuth" /\ pc' \in {"DirectApiKeyReceived", "SessionReceived",
                                    "NoPayloadFallback"})
            => pc' = payload_state(auth)
       /\ (pc = "OAuth" /\ pc' = "Error") => auth.error # NONE]_vars

\* two requests were handled: the payload of one and the error of the other
\* are both recorded, and login acted on the error
C5_Witness ==
    /\ pc = "Error"
    /\ auth.session_cookie # NONE
    /\ auth.error # NONE

\* ------------------------------------------------------------------------
\* C6: login moves only along CheckExisting -> {AlreadyValid, NeedsLogin};
\* NeedsLogin -> DirectKey (key supplied), else Headless (headless), else
\* OAuth; OAuth -> DirectApiKeyReceived (payload with rico_ prefix),
\* SessionReceived (payload without it), NoPayloadFallback (completed, no
\* payload), TimedOut or Error; every state can also end the run, and the run
\* ends in Authenticated or Failed, which it never leaves.
\* ------------------------------------------------------------------------
C6_Transition ==
    \/ pc' = pc
    \/ pc = "idle" /\ pc' = "CheckExisting"
    \/ pc = "CheckExisting" /\ pc' \in {"AlreadyValid", "NeedsLogin", "Failed"}
    \/ pc = "AlreadyValid" /\ pc' = "Authenticated"
    \/ pc = "NeedsLogin" /\ pc' = "DirectKey" /\ lg.key # NONE
    \/ pc = "NeedsLogin" /\ pc' = "Headless" /\ lg.key = NONE /\ is_headless(env)
    \/ pc = "NeedsLogin" /\ pc' = "OAuth" /\ lg.key = NONE /\ ~is_headless(env)
    \/ pc = "OAuth" /\ pc' = "DirectApiKeyReceived"
          /\ auth.session_cookie # NONE /\ StartsWithRico(auth.session_cookie)
    \/ pc = "OAuth" /\ pc' = "SessionReceived"
          /\ auth.session_cookie # NONE /\ ~StartsWithRico(auth.session_cookie)
    \/ pc = "OAuth" /\ pc' = "NoPayloadFallback"
          /\ auth.received_callback /\ auth.session_cookie = NONE
    \/ pc = "OAuth" /\ pc' \in {"TimedOut", "Error", "Failed"}
    \/ pc \in {"DirectKey", "Headless", "DirectApiKeyReceived", "SessionReceived",
               "NoPayloadFallback"} /\ pc' \in Terminal
    \/ pc \in {"TimedOut", "Error"} /\ pc' = "Failed"

C6_StateMachine ==
    /\ [](pc \in LoginStates \cup Terminal \cup {"idle"})
    /\ [][C6_Transition]_vars
    /\ [][(pc \in Terminal) => (pc' = pc)]_vars
    /\ [](pc \in LoginStates => ENABLED LoginStep)

\* a run through OAuth and a session token that ended authenticated
C6_Witness == pc = "Authenticated" /\ h.exchanged /\ listener = "aborted"

\* ------------------------------------------------------------------------
\* C7: if resolution returns a key for the target and the Validation Client
\* accepts it, login returns success: store and file unchanged, no listener
\* started, no prompt, and a key supplied on the command line is neither
\* validated nor persisted.
\* ------------------------------------------------------------------------
C7_AlreadyValidIsNoOp ==
    h.existing = "valid" =>
       /\ pc \in {"AlreadyValid", "Authenticated"}
       /\ config = h.cfg0 /\ disk = h.disk0
       /\ listener = "none"
       /\ ~h.prompted /\ ~h.exchanged
       /\ h.wrote = {}
       /\ h.validated = h.checked

\* the shortcut was taken although a different key came on the command line
C7_Witness ==
    /\ pc = "Authenticated" /\ h.existing = "valid"
    /\ lg.key # NONE
    /\ \A c \in h.checked : c[2] # lg.key

\* ------------------------------------------------------------------------
\* C8: with no callback recorded the wait loop goes on until more than 5
\* minutes have elapsed and then ends in the timeout error; a login that
\* timed out validated no new key, exchanged nothing and wrote nothing.
\* ------------------------------------------------------------------------
C8_Timeout ==
    /\ [](pc = "TimedOut" => elapsed > TimeoutMs)
    /\ []((pc = "TimedOut" \/ (pc = "Failed" /\ h.why = "timeout")) =>
             /\ config = h.cfg0 /\ disk = h.disk0
             /\ h.wrote = {} /\ ~h.exchanged /\ ~h.prompted
             /\ h.validated = h.checked
             /\ listener = "aborted")
    /\ [][(pc = "OAuth" /\ listener = "running" /\ ~auth.received_callback)
             => \/ pc' = "OAuth"
                \/ pc' = "TimedOut" /\ elapsed > TimeoutMs]_vars
    /\ [][(pc = "OAuth" /\ listener = "running" /\ elapsed > TimeoutMs /\ elapsed' # elapsed)
             => FALSE]_vars
    /\ [][(pc = "OAuth" /\ listener = "running" /\ elapsed > TimeoutMs /\ pc' # pc)
             => pc' = "TimedOut"]_vars

\* the login timed out without any callback
C8_Witness ==
    /\ pc = "Failed" /\ h.why = "timeout"
    /\ ~auth.received_callback
    /\ elapsed > TimeoutMs

\* ------------------------------------------------------------------------
\* C9 (as claimed): every key login writes into the store was accepted by
\* the Validation Client for the target URL earlier in the same run.
\* ------------------------------------------------------------------------
C9_EveryWrittenKeyAccepted ==
    \A w \in h.wrote : <<w[2], w[3]>> \in h.accepted

\* C9 (amended): that holds for a key supplied on the command line, entered
\* manually or delivered by the callback with the rico_ prefix; a key issued
\* by the session-token exchange is written without a validation call.
C9_WrittenKeyAcceptedUnlessIssued ==
    /\ ~h.exchanged => \A w \in h.wrote : <<w[2], w[3]>> \in h.accepted
    /\ h.exchanged => \A w \in h.wrote : w[3] \in IssuedKeys /\ w[2] = lg.url

\* a key delivered by the callback was validated and then written
C9_Witness ==
    /\ pc = "Authenticated" /\ ~h.exchanged
    /\ auth.session_cookie = K2
    /\ \E w \in h.wrote : w[3] = K2 /\ <<w[2], w[3]>> \in h.accepted

\* ------------------------------------------------------------------------
\* Life cycle of the store: load(), then Config method calls, login, logout
\* ------------------------------------------------------------------------
\* Config::load as a function of the file found and of whether the save of
\* a migrated store succeeds (config.rs 86-105): the store returned (ok) or
\* the error propagated by `?`, and the file left behind
load(f, saved) ==
    IF f.exists
    THEN LET c == f.content IN
         IF DOMAIN c.servers = {} /\ c.server # NONE
         THEN [ok   |-> save_ok(saved),
               cfg  |-> migrate_legacy_config(c),
               file |-> IF saved THEN ToFile(migrate_legacy_config(c)) ELSE f]
         ELSE [ok |-> TRUE, cfg |-> c, file |-> f]
    ELSE [ok |-> TRUE, cfg |-> ConfigDefault, file |-> f]

\* main calls Config::load before any command (main.rs 175)
Load ==
    /\ pc = "start"
    /\ origin' = disk
    /\ \E saved \in BOOLEAN :
          LET r == load(disk, saved) IN
          /\ config' = r.cfg
          /\ disk' = r.file
          /\ pc' = IF r.ok THEN "idle" ELSE "LoadFailed"
    /\ UNCHANGED <<env, last, res, nops, out, cli, mx, loginVars>>

\* logout (login.rs 494-547)
Logout ==
    /\ pc = "idle"
    /\ \E ref \in RefStrings \cup {NONE} :
       \E t \in logout_target(config, ref) :
          IF ~t.ok \/ t.name \notin DOMAIN config.servers
          THEN /\ last' = [op |-> "logout", ref |-> ref, name |-> t.name, ok |-> FALSE,
                           ret |-> FALSE, before |-> config,
                      prev |-> CallOf(last), key |-> NONE]
               /\ UNCHANGED <<config, disk>>
          ELSE IF config.servers[t.name].api_key = NONE
          THEN /\ last' = [op |-> "logout", ref |-> ref, name |-> t.name, ok |-> TRUE,
                           ret |-> FALSE, before |-> config,
                      prev |-> CallOf(last), key |-> NONE]
               /\ UNCHANGED <<config, disk>>
          ELSE \E saved \in BOOLEAN :
                  /\ config' = clear_api_key(config, t.name)
                  /\ disk' = IF saved THEN ToFile(config') ELSE disk
                  /\ last' = [op |-> "logout", ref |-> ref, name |-> t.name,
                              ok |-> save_ok(saved), ret |-> TRUE, before |-> config,
                      prev |-> CallOf(last), key |-> NONE]
    /\ UNCHANGED <<env, pc, res, origin, out, cli, mx, loginVars>>

\* servers add <name> <url> [--default] (servers.rs 72-113); an existing
\* name is overwritten only after the user confirms
ServersAdd ==
    /\ pc = "idle"
    /\ \E n \in Names, u \in RawUrlStrings, dflt \in BOOLEAN, confirmed \in BOOLEAN,
          saved \in BOOLEAN :
          LET p == parse_server_url(u)
              added == add_server(config, n, p.url, NONE)
          IN  IF ~p.ok
              THEN /\ last' = [op |-> "servers add", ref |-> u, name |-> n, ok |-> FALSE,
                               ret |-> FALSE, before |-> config,
                      prev |-> CallOf(last), key |-> NONE]
                   /\ UNCHANGED <<config, disk>>
              ELSE IF n \in DOMAIN config.servers /\ ~confirmed
              THEN /\ last' = [op |-> "servers add", ref |-> u, name |-> n, ok |-> TRUE,
                               ret |-> FALSE, before |-> config,
                      prev |-> CallOf(last), key |-> NONE]
                   /\ UNCHANGED <<config, disk>>
              ELSE /\ config' = IF dflt THEN set_default_server(added, n).cfg ELSE added
                   /\ disk' = IF saved THEN ToFile(config') ELSE disk
                   /\ last' = [op |-> "servers add", ref |-> u, name |-> n,
                               ok |-> save_ok(saved), ret |-> TRUE, before |-> config,
                      prev |-> CallOf(last), key |-> NONE]
    /\ UNCHANGED <<env, pc, res, origin, out, cli, mx, loginVars>>

\* servers remove <name> [--force] (servers.rs 116-158)
ServersRemove ==
    /\ pc = "idle"
    /\ \E n \in Names, confirmed \in BOOLEAN, saved \in BOOLEAN :
          IF n \notin DOMAIN config.servers
          THEN /\ last' = [op |-> "servers remove", ref |-> NONE, name |-> n, ok |-> FALSE,
                           ret |-> FALSE, before |-> config,
                      prev |-> CallOf(last), key |-> NONE]
               /\ UNCHANGED <<config, disk>>
          ELSE IF ~confirmed
          THEN /\ last' = [op |-> "servers remove", ref |-> NONE, name |-> n, ok |-> TRUE,
                           ret |-> FALSE, before |-> config,
                      prev |-> CallOf(last), key |-> NONE]
               /\ UNCHANGED <<config, disk>>
          ELSE /\ config' = remove_server(config, n).cfg
               /\ disk' = IF saved THEN ToFile(config') ELSE disk
               /\ last' = [op |-> "servers remove", ref |-> NONE, name |-> n,
                           ok |-> save_ok(saved), ret |-> TRUE, before |-> config,
                      prev |-> CallOf(last), key |-> NONE]
    /\ UNCHANGED <<env, pc, res, origin, out, cli, mx, loginVars>>

\* servers set-default <name> (servers.rs 161-172)
ServersSetDefault ==
    /\ pc = "idle"
    /\ \E n \in Names, saved \in BOOLEAN :
          IF ~set_default_server(config, n).ok
          THEN /\ last' = [op |-> "servers set-default", ref |-> NONE, name |-> n,
                           ok |-> FALSE, ret |-> FALSE, before |-> config,
                      prev |-> CallOf(last), key |-> NONE]
               /\ UNCHANGED <<config, disk>>
          ELSE /\ config' = set_default_server(config, n).cfg
               /\ disk' = IF saved THEN ToFile(config') ELSE disk
               /\ last' = [op |-> "servers set-default", ref |-> NONE, name |-> n,
                           ok |-> save_ok(saved), ret |-> TRUE, before |-> config,
                      prev |-> CallOf(last), key |-> NONE]
    /\ UNCHANGED <<env, pc, res, origin, out, cli, mx, loginVars>>

\* login returned to its caller
Return ==
    /\ pc \in Terminal
    /\ pc' = "idle"
    /\ lg' = NoLogin
    /\ auth' = NoAuth
    /\ listener' = "none"
    /\ elapsed' = 0
    /\ h' = NoHistory
    /\ UNCHANGED <<config, disk, env, storeOps, nops>>

\* persisted records: a legacy single-server file, a multi-server file, or both
LegacyUrls == {NONE, UP}
LegacyKeys == {NONE, K1}
FileServerMaps == {NoServers} \cup {[n \in {"prod"} |-> e] : e \in EntryValues}
FileRecords ==
    {MkConfig(lu, lk, m, d) : lu \in LegacyUrls, lk \in LegacyKeys,
                              m \in FileServerMaps, d \in {NONE, "prod"}}
Files == {NoFile} \cup {ToFile(c) : c \in FileRecords}

InitLife ==
    /\ disk \in Files
    /\ config = ConfigDefault
    /\ env \in {MkEnv(NONE, NONE, d) : d \in {Desktop, SshNoDisplay}}
    /\ pc = "start"
    /\ last = NoCall
    /\ res = NoResolve
    /\ origin = NoFile
    /\ nops = 0
    /\ out = NoOutput
    /\ cli = NoCli
    /\ mx = NoMx
    /\ LoginIdle

\* one more operation on the loaded store, up to the bound
Counted == nops < MaxOps /\ nops' = nops + 1

NextLife ==
    \/ Load
    \/ Counted /\ AddServerCall
    \/ Counted /\ RemoveServerCall
    \/ Counted /\ SetDefaultServerCall
    \/ Counted /\ Logout
    \/ Counted /\ ServersAdd
    \/ Counted /\ ServersRemove
    \/ Counted /\ ServersSetDefault
    \/ Counted /\ LoginStart
    \/ LoginStep
    \/ Return

SpecLife == InitLife /\ [][NextLife]_vars

\* servers non-empty implies both legacy fields absent
LegacyAbsent(c) == DOMAIN c.servers # {} => (c.server = NONE /\ c.api_key = NONE)
Loaded == pc \notin {"start", "LoadFailed"}

\* ------------------------------------------------------------------------
\* C10 (as claimed): for every persisted record load() accepts, the store it
\* returns and every store reachable from it through add_server,
\* remove_server, set_default_server, login and logout has no legacy URL and
\* no legacy key while servers is non-empty.
\* ------------------------------------------------------------------------
C10_LegacyAbsentForEveryRecord == Loaded => LegacyAbsent(config)

\* C10 (amended): that holds when there is no file, when the record has no
\* legacy field, and when its servers map is empty and its legacy URL is
\* present (the record load() migrates).  A record with entries and a legacy
\* field, or with a legacy key but no legacy URL, is returned as it is.
Migratable(f) ==
    \/ ~f.exists
    \/ f.content.server = NONE /\ f.content.api_key = NONE
    \/ DOMAIN f.content.servers = {} /\ f.content.server # NONE

C10_LegacyAbsentAfterMigration == (Loaded /\ Migratable(origin)) => LegacyAbsent(config)

\* a legacy record with a key was migrated and a second entry was added
C10_Witness ==
    /\ pc = "idle"
    /\ origin.exists /\ origin.content.server # NONE /\ origin.content.api_key # NONE
    /\ Cardinality(DOMAIN config.servers) >= 2
    /\ config.servers["default"].api_key = origin.content.api_key

\* ------------------------------------------------------------------------
\* C11: with no environment override, for every entry of every store reached
\* through load, add_server, remove_server, login and logout, resolve_server
\* given the entry's URL string returns the same api_key as resolve_server
\* given the entry's name.
\* ------------------------------------------------------------------------
C11_UrlResolvesLikeName ==
    Loaded =>
       \A n \in DOMAIN config.servers :
          \A byUrl \in resolve_server(config, NoEnv, config.servers[n].url),
             byName \in resolve_server(config, NoEnv, n) :
                byUrl.ok /\ byName.ok /\ byUrl.api_key = byName.api_key

\* ------------------------------------------------------------------------
\* C12: when login persists a key, the entry name is the login reference if
\* that was an entry name; otherwise the name of an existing entry whose URL
\* is the target URL; otherwise a name derived from the host: "local" for a
\* loopback host, else the first label left after a leading "www" label is
\* stripped, and "default" only if no label is left.
\* ------------------------------------------------------------------------
\* the host-derived name as the claim states it
HostNameStripped(u) ==
    LET parts == HostParts(u)
        rest == IF Len(parts) > 0 /\ parts[1] = "www" THEN Tail(parts) ELSE parts
    IN  IF HostStr(u) \in {"localhost", "127.0.0.1"} THEN "local"
        ELSE IF Len(rest) > 0 THEN rest[1]
        ELSE "default"

C12_PersistedName ==
    \A w \in h.wrote :
       LET before == h.cfg0.servers
           M == {n \in DOMAIN before : before[n].url = w[2]}
       IN  IF lg.ref # NONE /\ lg.ref \in DOMAIN before THEN w[1] = lg.ref
           ELSE IF M # {} THEN w[1] \in M
           ELSE w[1] = HostNameStripped(w[2])

\* ------------------------------------------------------------------------
\* C13: a login that succeeds with a key and whose reference names an
\* existing entry writes the key to that entry and creates none: the entry
\* names are the same, the named entry keeps its URL and holds the new key,
\* and every other entry is unchanged.
\* ------------------------------------------------------------------------
C13_NamedLoginUpdatesInPlace ==
    (pc = "Authenticated" /\ h.wrote # {} /\ lg.ref \in DOMAIN h.cfg0.servers) =>
       /\ DOMAIN config.servers = DOMAIN h.cfg0.servers
       /\ config.servers[lg.ref].url = h.cfg0.servers[lg.ref].url
       /\ h.wrote = {<<lg.ref, lg.url, config.servers[lg.ref].api_key>>}
       /\ config.servers[lg.ref].api_key # NONE
       /\ \A n \in DOMAIN config.servers \ {lg.ref} :
             config.servers[n] = h.cfg0.servers[n]

\* the OAuth callback delivered api_key=rico_... for a named entry that had no
\* key, in a store with a second entry
C13_Witness ==
    /\ pc = "Authenticated" /\ lg.ref \in DOMAIN h.cfg0.servers
    /\ h.cfg0.servers[lg.ref].api_key = NONE
    /\ auth.session_cookie = K2 /\ ~h.exchanged /\ ~h.prompted
    /\ config.servers[lg.ref].api_key = K2
    /\ Cardinality(DOMAIN config.servers) = 2

\* ------------------------------------------------------------------------
\* logout called again and again on any loaded store
\* ------------------------------------------------------------------------
InitLogout ==
    /\ config \in Stores
    /\ disk = ToFile(config)
    /\ env = NoEnv
    /\ pc = "idle"
    /\ last = NoCall
    /\ res = NoResolve
    /\ origin = disk
    /\ nops = 0
    /\ out = NoOutput
    /\ cli = NoCli
    /\ mx = NoMx
    /\ LoginIdle

NextLogout == Logout /\ UNCHANGED nops

SpecLogout == InitLogout /\ [][NextLogout]_vars

\* the step is a call of logout
LogoutStep == last' # last /\ last'.op = "logout"
\* the reference matches an entry name or an entry URL
Matches(c, ref) ==
    \/ ref \in DOMAIN c.servers
    \/ /\ parse_server_url(ref).ok
       /\ \E n \in DOMAIN c.servers : c.servers[n].url = parse_server_url(ref).url

\* ------------------------------------------------------------------------
\* C14: logout, successful or not, changes nothing in the store but the
\* api_key of the entry it resolved, which it clears: the entries, their
\* URLs, the other entries' keys, default_server and the legacy fields stay,
\* the file is left alone or rewritten with that store, and a reference that
\* matches no entry name and no entry URL makes logout fail with the store
\* and the file unchanged.
\* ------------------------------------------------------------------------
C14_LogoutFrame ==
    [][LogoutStep =>
         /\ DOMAIN config'.servers = DOMAIN config.servers
         /\ config'.default_server = config.default_server
         /\ config'.server = config.server /\ config'.api_key = config.api_key
         /\ \A n \in DOMAIN config.servers :
               /\ config'.servers[n].url = config.servers[n].url
               /\ \/ config'.servers[n] = config.servers[n]
                  \/ n = last'.name /\ config'.servers[n].api_key = NONE
         /\ disk' \in {disk, ToFile(config')}
         /\ (last'.ref # NONE /\ ~Matches(config, last'.ref)) =>
               (~last'.ok /\ config' = config /\ disk' = disk)]_vars

\* logout cleared one entry's key while another entry kept its own
C14_Witness ==
    /\ last.op = "logout" /\ last.ok /\ last.ret
    /\ last.before.servers[last.name].api_key # NONE
    /\ config.servers[last.name].api_key = NONE
    /\ \E n \in DOMAIN config.servers \ {last.name} : config.servers[n].api_key # NONE

\* ------------------------------------------------------------------------
\* C15: logout called twice in a row with a reference that resolves to an
\* entry succeeds both times, the entry's key is absent after each call, and
\* the second call changes nothing.
\* ------------------------------------------------------------------------
C15_LogoutTwice ==
    [][(LogoutStep /\ last.op = "logout" /\ last.ok /\ last'.ref = last.ref) =>
         /\ config.servers[last.name].api_key = NONE
         /\ last'.ok
         /\ config'.servers[last'.name].api_key = NONE
         /\ config' = config /\ disk' = disk]_vars

\* ------------------------------------------------------------------------
\* What login prints for a key
\* ------------------------------------------------------------------------
KeyChars == {"a", "b"}
KeyTexts == UNION {[1..n -> KeyChars] : n \in 1..MaxKeyLen}

InitDisplay ==
    /\ config = ConfigDefault
    /\ disk = NoFile
    /\ env = NoEnv
    /\ pc = "idle"
    /\ last = NoCall
    /\ res = NoResolve
    /\ origin = NoFile
    /\ nops = 0
    /\ out \in {[NoOutput EXCEPT !.key = k] : k \in KeyTexts}
    /\ cli = NoCli
    /\ mx = NoMx
    /\ LoginIdle

\* login.rs 480-482 (validate_and_save_key) and 388-394 (create_api_key_with_session)
PrintApiKey ==
    /\ out.where = "none"
    /\ out' = [out EXCEPT !.text = api_key_line(out.key), !.where = "success"]
    /\ UNCHANGED <<config, disk, env, pc, last, res, origin, nops, cli, mx, loginVars>>

\* login.rs 178-186: "Received callback with params"
LogCallbackParams ==
    /\ out.where = "none"
    /\ out' = [out EXCEPT !.text = callback_debug(out.key), !.where = "callback"]
    /\ UNCHANGED <<config, disk, env, pc, last, res, origin, nops, cli, mx, loginVars>>

NextDisplay == PrintApiKey \/ LogCallbackParams

SpecDisplay == InitDisplay /\ [][NextDisplay]_vars

\* the text holds the whole key
Contains(text, key) ==
    \E i \in 0..(Len(text) - Len(key)) : SubSeq(text, i + 1, i + Len(key)) = key
\* a fixed redaction marker
Marker == <<"*", "*", "*", "*">>

Procs == {1, 2}
\* toml::from_str("") : every field absent
ConfigEmpty == MkConfig(NONE, NONE, NoServers, NONE)

\* the mutations of the commands: servers add <name> <url>, servers remove <name>
Mutations ==
    {[op |-> "add", name |-> n] : n \in Names} \cup {[op |-> "remove", name |-> n] : n \in Names}

InitRace ==
    /\ config = ConfigDefault
    /\ disk = NoFile
    /\ env = NoEnv
    /\ pc = "idle"
    /\ last = NoCall
    /\ res = NoResolve
    /\ origin = NoFile
    /\ nops = 0
    /\ out = NoOutput
    /\ mx = NoMx
    /\ LoginIdle
    /\ \E c \in ValidStores :
          cli = [procs |-> [i \in Procs |-> [pc |-> "start", config |-> ConfigDefault]],
                 file |-> [state |-> "whole", content |-> c, len |-> TextLen(c)],
                 lastSaver |-> 0]

raceKeeps == <<config, disk, env, pc, last, res, origin, nops, out, mx, loginVars>>

\* main.rs 175: Config::load() reads the file as it is at that moment
RaceLoad(i) ==
    /\ cli.procs[i].pc = "start"
    /\ cli' = [cli EXCEPT !.procs[i] =
                 IF cli.file.state = "whole"
                 THEN [pc |-> "loaded", config |-> cli.file.content]
                 ELSE IF cli.file.state = "empty"
                 THEN [pc |-> "loaded", config |-> ConfigEmpty]
                 ELSE [pc |-> "failed", config |-> ConfigDefault]]
    /\ UNCHANGED raceKeeps

\* servers.rs 72-88 and 116-140: the command changes its in-memory store
RaceMutate(i) ==
    /\ cli.procs[i].pc = "loaded"
    /\ \E m \in Mutations :
          LET c == cli.procs[i].config IN
          IF m.op = "add"
          THEN cli' = [cli EXCEPT !.procs[i] =
                         [pc |-> "mutated", config |-> add_server(c, m.name, UL, NONE)]]
          ELSE cli' = [cli EXCEPT !.procs[i] =
                         IF remove_server(c, m.name).ok
                         THEN [pc |-> "mutated", config |-> remove_server(c, m.name).cfg]
                         ELSE [pc |-> "failed", config |-> c]]
    /\ UNCHANGED raceKeeps

\* config.rs 128, first half of std::fs::write: File::create truncates the file
RaceOpen(i) ==
    /\ cli.procs[i].pc = "mutated"
    /\ cli' = [cli EXCEPT !.procs[i].pc = "opened",
                          !.file = [state |-> "empty", content |-> ConfigEmpty, len |-> 0]]
    /\ UNCHANGED raceKeeps

\* config.rs 128, second half: write_all at offset 0; bytes another process
\* wrote beyond the end of this text stay in the file
RaceWrite(i) ==
    /\ cli.procs[i].pc = "opened"
    /\ LET c == cli.procs[i].config IN
       cli' = [cli EXCEPT !.procs[i].pc = "done",
                          !.lastSaver = i,
                          !.file = IF cli.file.len > TextLen(c)
                                   THEN [state |-> "mixed", content |-> c, len |-> cli.file.len]
                                   ELSE [state |-> "whole", content |-> c, len |-> TextLen(c)]]
    /\ UNCHANGED raceKeeps

NextRace == \E i \in Procs : RaceLoad(i) \/ RaceMutate(i) \/ RaceOpen(i) \/ RaceWrite(i)

SpecRace == InitRace /\ [][NextRace]_vars

\* ------------------------------------------------------------------------
\* C17: when two invocations run load, mutate, save at once, the file after
\* both have finished holds the in-memory store of the invocation that saved
\* last, never a mixture of the two.
\* ------------------------------------------------------------------------
C17_LastSaveWins ==
    (cli.lastSaver # 0 /\ \A i \in Procs : cli.procs[i].pc \in {"done", "failed"}) =>
       /\ cli.file.state = "whole"
       /\ cli.file.content = cli.procs[cli.lastSaver].config

\* ------------------------------------------------------------------------
\* C18: a command that changes the store and returns success (login, logout,
\* servers add, servers remove, servers set-default) saved it after its last
\* change: when it returns, the file holds the in-memory store.
\* ------------------------------------------------------------------------
Commands == {"logout", "servers add", "servers remove", "servers set-default"}

C18_SuccessMeansSaved ==
    /\ [][(last' # last /\ last'.op \in Commands /\ last'.ok /\ config' # config)
            => disk' = ToFile(config')]_vars
    /\ []((pc = "Authenticated" /\ config # h.cfg0) => disk = ToFile(config))

\* servers add --default replaced the default of a loaded store and returned
C18_Witness ==
    /\ last.op = "servers add" /\ last.ok /\ last.ret
    /\ last.before.default_server # NONE
    /\ config.default_server = last.name /\ last.before.default_server # last.name
    /\ disk = ToFile(config)

\* ------------------------------------------------------------------------
\* C19: when load() finds a record whose servers map is empty and whose
\* legacy URL is present and returns a store, that store has exactly one
\* entry, "default", holding the legacy URL and the legacy key, its
\* default_server is "default" and both legacy fields are absent, and the
\* file already holds that store; migrating the store again, or loading the
\* file again, gives the same store and leaves the file as it is.  (When the
\* save inside load() fails, load() returns the error and no store, and the
\* file is the one it found.)
\* ------------------------------------------------------------------------
LegacyRecord(f) ==
    f.exists /\ DOMAIN f.content.servers = {} /\ f.content.server # NONE

JustLoaded == pc = "idle" /\ nops = 0

C19_LoadMigratesLegacyRecord ==
    /\ (JustLoaded /\ LegacyRecord(origin)) =>
          /\ DOMAIN config.servers = {"default"}
          /\ config.servers["default"] =
                ServerConfig(origin.content.server, origin.content.api_key)
          /\ config.default_server = "default"
          /\ config.server = NONE /\ config.api_key = NONE
          /\ disk = ToFile(config)
          /\ migrate_legacy_config(config) = config
          /\ \A saved \in BOOLEAN :
                load(disk, saved) = [ok |-> TRUE, cfg |-> config, file |-> disk]
    /\ (pc = "LoadFailed") => (LegacyRecord(origin) /\ disk = origin)

\* load() returned after migrating a legacy record that had a key and named
\* a default that no entry carried
C19_Witness ==
    /\ JustLoaded /\ LegacyRecord(origin)
    /\ origin.content.api_key = K1
    /\ origin.content.default_server = "prod"
    /\ config.servers["default"].api_key = K1
    /\ disk # origin

\* ------------------------------------------------------------------------
\* C20: resolve_server fails only when the chosen string (RICOCHET_SERVER if
\* set, else the reference) is not an entry name and does not start with
\* http:// or https://, and the error then lists exactly the names of the
\* store (none when it is empty); or when the string starts with http:// or
\* https:// and does not parse as a URL; or when there is no override, no
\* reference and servers is empty.  With no override, no reference, no
\* default_server that names an entry and a non-empty servers map it returns
\* one of the entries (its URL, and its key unless RICOCHET_API_KEY replaces
\* it).
\* ------------------------------------------------------------------------
ChosenString == IF env.server # NONE THEN env.server ELSE res.ref

C20_ResolveFailsOnlyWhen ==
    res.called =>
      /\ ~res.result.ok =>
            \/ /\ ChosenString # NONE
               /\ ChosenString \notin DOMAIN config.servers
               /\ ~StartsWithHttp(ChosenString)
               /\ res.result.via = "not_found"
               /\ res.result.listed = DOMAIN config.servers
            \/ /\ ChosenString # NONE
               /\ StartsWithHttp(ChosenString)
               /\ ~UrlParse(ChosenString).ok
               /\ res.result.via = "bad_url"
            \/ /\ ChosenString = NONE
               /\ DOMAIN config.servers = {}
               /\ res.result.via = "no_servers"
      /\ (ChosenString = NONE /\ DOMAIN config.servers # {}) =>
            /\ res.result.ok
            /\ \E n \in DOMAIN config.servers :
                  /\ res.result.url = config.servers[n].url
                  /\ res.result.api_key =
                        IF env.api_key # NONE THEN env.api_key
                        ELSE config.servers[n].api_key

\* RICOCHET_SERVER held a string that is no entry name and no URL while the
\* reference named an entry: the call failed and listed both entries
C20_Witness ==
    /\ res.called /\ ~res.result.ok
    /\ env.server = "ghost" /\ res.ref \in DOMAIN config.servers
    /\ Cardinality(DOMAIN config.servers) = 2
    /\ res.result.listed = DOMAIN config.servers

\* ------------------------------------------------------------------------
\* C21: add_server(x, url, key) followed by remove_server(x) leaves servers
\* equal to what it was before the add; and if x was then the only entry and
\* the default, default_server ends absent.
\* ------------------------------------------------------------------------
AddThenRemove ==
    /\ last.op = "remove_server" /\ last.prev.op = "add_server"
    /\ last.name = last.prev.name

C21_AddRemoveRoundTrip ==
    AddThenRemove =>
      /\ last.ok
      /\ config.servers = last.prev.before.servers
      /\ (DOMAIN last.before.servers = {last.name}
           /\ last.before.default_server = last.name)
            => config.default_server = NONE

\* C21 (amended): when x was not an entry before the add, servers ends equal
\* to what it was before the add; when x was an entry, servers ends as it
\* was before the add without x.  In both cases the remove succeeds, and if
\* x was the only entry and the default when it was removed, default_server
\* ends absent.
C21_RoundTripForNewName ==
    AddThenRemove =>
      /\ last.ok
      /\ config.servers = MapRemove(last.prev.before.servers, last.name)
      /\ last.name \notin DOMAIN last.prev.before.servers
            => config.servers = last.prev.before.servers
      /\ (DOMAIN last.before.servers = {last.name}
           /\ last.before.default_server = last.name)
            => config.default_server = NONE

\* x was added to an empty store without a default and removed again
C21_Witness ==
    /\ AddThenRemove
    /\ DOMAIN last.prev.before.servers = {}
    /\ last.prev.before.default_server = NONE
    /\ last.before.default_server = last.name
    /\ last.ret
    /\ DOMAIN config.servers = {} /\ config.default_server = NONE

\* ------------------------------------------------------------------------
\* C22: add_server(name, url, key) always succeeds, makes servers[name]
\* exactly (url, key) whether or not name already existed, leaves every
\* other entry unchanged, sets default_server to name if and only if
\* default_server was absent, and otherwise leaves default_server unchanged.
\* ------------------------------------------------------------------------
C22_AddServerEffect ==
    last.op = "add_server" =>
      /\ last.ok
      /\ DOMAIN config.servers = DOMAIN last.before.servers \cup {last.name}
      /\ config.servers[last.name] = [url |-> last.ref, api_key |-> last.key]
      /\ \A n \in DOMAIN last.before.servers \ {last.name} :
            config.servers[n] = last.before.servers[n]
      /\ last.before.default_server = NONE => config.default_server = last.name
      /\ last.before.default_server # NONE =>
            config.default_server = last.before.default_server
      /\ config.server = last.before.server /\ config.api_key = last.before.api_key

\* add_server overwrote an entry that had another URL and a key, in a store
\* whose default was a different entry
C22_Witness ==
    /\ last.op = "add_server"
    /\ last.name \in DOMAIN last.before.servers
    /\ last.before.servers[last.name].url # last.ref
    /\ last.before.servers[last.name].api_key = K1 /\ last.key = NONE
    /\ last.before.default_server \notin {NONE, last.name}
    /\ Cardinality(DOMAIN config.servers) >= 2

\* ------------------------------------------------------------------------
\* C23: remove_server(name) and set_default_server(name) fail with a
\* not-found error and leave servers and default_server unchanged when name
\* is not an entry; otherwise remove_server deletes only that entry and
\* returns true exactly when name was default_server, and set_default_server
\* changes only default_server, to name.
\* ------------------------------------------------------------------------
C23_RemoveAndSetDefault ==
    /\ (last.op \in {"remove_server", "set_default_server"}
         /\ last.name \notin DOMAIN last.before.servers) =>
          (~last.ok /\ config = last.before)
    /\ (last.op = "remove_server" /\ last.name \in DOMAIN last.before.servers) =>
          /\ last.ok
          /\ DOMAIN config.servers = DOMAIN last.before.servers \ {last.name}
          /\ \A n \in DOMAIN config.servers :
                config.servers[n] = last.before.servers[n]
          /\ last.ret <=> (last.before.default_server = last.name)
          /\ config.default_server =
                IF last.ret THEN NONE ELSE last.before.default_server
          /\ config.server = last.before.server
          /\ config.api_key = last.before.api_key
    /\ (last.op = "set_default_server" /\ last.name \in DOMAIN last.before.servers) =>
          /\ last.ok
          /\ config = [last.before EXCEPT !.default_server = last.name]

\* set_default_server failed on a name that is no entry of a store that has
\* another default
C23_Witness ==
    /\ last.op = "set_default_server" /\ ~last.ok
    /\ last.name \notin DOMAIN config.servers
    /\ config.default_server \in DOMAIN config.servers
    /\ config = last.before

\* ------------------------------------------------------------------------
\* C24: the first request to /callback leaves AuthState completed with the
\* error parameter as error if there is one (whatever else the request
\* carries), otherwise the api_key parameter as payload, otherwise the
\* session parameter as payload, otherwise with payload and error both
\* absent.  A check of the wait loop that finds AuthState completed without
\* error before the timeout leaves the loop, and the read after the loop
\* that finds no payload goes to manual entry: a login whose AuthState is
\* completed with payload and error absent when it is read prompts for a
\* key.
\* ------------------------------------------------------------------------
FirstOutcome(req) ==
    IF req.error # NONE
    THEN [received_callback |-> TRUE, session_cookie |-> NONE, error |-> req.error]
    ELSE IF req.api_key # NONE
    THEN [received_callback |-> TRUE, session_cookie |-> req.api_key, error |-> NONE]
    ELSE IF req.session # NONE
    THEN [received_callback |-> TRUE, session_cookie |-> req.session, error |-> NONE]
    ELSE [received_callback |-> TRUE, session_cookie |-> NONE, error |-> NONE]

LoopCheck ==
    /\ pc = "OAuth" /\ listener = "running"
    /\ (pc' # pc \/ listener' # listener \/ elapsed' # elapsed)

AfterLoopRead == pc = "OAuth" /\ listener = "aborted" /\ pc' # pc

C24_FirstRequestOutcome ==
    /\ [][(h.first = <<>> /\ h'.first # <<>>) =>
            auth' = FirstOutcome(h'.first[1])]_vars
    /\ [][(LoopCheck /\ auth.received_callback /\ auth.error = NONE
            /\ ~timed_out(elapsed)) =>
              (listener' = "aborted" /\ pc' = "OAuth" /\ elapsed' = elapsed)]_vars
    /\ [][(AfterLoopRead /\ auth.session_cookie = NONE) =>
            pc' = "NoPayloadFallback"]_vars
    /\ [][(pc = "NoPayloadFallback" /\ pc' # pc) => h'.prompted]_vars

\* the first request carried error, api_key and session together
C24_Witness ==
    /\ h.first = <<[error |-> "access_denied", api_key |-> K2, session |-> SESS]>>
    /\ auth = [received_callback |-> TRUE, session_cookie |-> NONE,
               error |-> "access_denied"]
    /\ pc = "Failed" /\ h.why = "oauth_error"

\* ------------------------------------------------------------------------
\* The AuthState mutex, step by step.  AuthState lives in an
\* Arc<Mutex<AuthState>> (login.rs 161-165); every connection task that
\* serves /callback and the wait loop take state.lock().await before they
\* touch it.  mx.inside is the set of tasks holding a guard, mx.state the
\* AuthState field by field, mx.whole the AuthState with every handler
\* applied in one piece when it got the lock, mx.seen what the wait loop
\* read last and mx.seenWhole the value of mx.whole at that read.
\* ------------------------------------------------------------------------
\* a lock that is handed out whether or not a guard is alive
lock_free_Always(inside) == TRUE

\* Mutex::lock().await completes when no guard is alive
lock_free(inside) == inside = {}

mutexKeeps ==
    <<config, disk, env, pc, last, res, origin, nops, out, cli, loginVars>>

InitMutex ==
    /\ config = ConfigDefault
    /\ disk = ToFile(config)
    /\ env = NoEnv
    /\ pc = "OAuth"
    /\ last = NoCall
    /\ res = NoResolve
    /\ origin = disk
    /\ nops = 0
    /\ out = NoOutput
    /\ cli = NoCli
    /\ lg \in OAuthTargets
    /\ auth = NoAuth
    /\ listener = "running"
    /\ elapsed = 0
    /\ h = [NoHistory EXCEPT !.cfg0 = config, !.disk0 = disk]
    /\ mx = [NoMx EXCEPT !.ppc = "loop"]

\* login.rs 174: let mut auth_state = state.lock().await, in the task of one
\* connection; the request it serves is req
HandlerLock(t) ==
    /\ mx.hpc[t] = "idle"
    /\ lock_free(mx.inside)
    /\ \E req \in Requests :
          mx' = [mx EXCEPT !.inside = @ \cup {t}, !.hpc[t] = "locked", !.req[t] = req,
                           !.whole = callback_handler(@, req)]
    /\ UNCHANGED mutexKeeps

\* login.rs 189, 194, 199: the branch taken writes error or session_cookie
HandlerWriteOutcome(t) ==
    /\ mx.hpc[t] = "locked"
    /\ mx' = [mx EXCEPT !.hpc[t] = "outcome",
                        !.state = [callback_handler(@, mx.req[t]) EXCEPT
                                     !.received_callback = mx.state.received_callback]]
    /\ UNCHANGED mutexKeeps

\* login.rs 190, 195, 200, 205: auth_state.received_callback = true
HandlerWriteCompleted(t) ==
    /\ mx.hpc[t] = "outcome"
    /\ mx' = [mx EXCEPT !.hpc[t] = "flagged", !.state.received_callback = TRUE]
    /\ UNCHANGED mutexKeeps

\* login.rs 209: the guard is dropped at the end of the async block
HandlerUnlock(t) ==
    /\ mx.hpc[t] = "flagged"
    /\ mx' = [mx EXCEPT !.hpc[t] = "idle", !.inside = @ \ {t}]
    /\ UNCHANGED mutexKeeps

\* login.rs 240-243: the timeout test at the top of an iteration
PollerTimeout ==
    /\ mx.ppc = "loop"
    /\ mx' = [mx EXCEPT !.ppc = "timedout"]
    /\ UNCHANGED mutexKeeps

\* login.rs 245: let auth_state = state.lock().await
PollerLock ==
    /\ mx.ppc = "loop"
    /\ lock_free(mx.inside)
    /\ mx' = [mx EXCEPT !.ppc = "locked", !.inside = @ \cup {Poller}]
    /\ UNCHANGED mutexKeeps

\* login.rs 246-247: read received_callback and error
PollerRead ==
    /\ mx.ppc = "locked"
    /\ mx' = [mx EXCEPT !.ppc = "read", !.seen = mx.state, !.seenWhole = mx.whole]
    /\ UNCHANGED mutexKeeps

\* login.rs 248-253: the guard is dropped by bail!, by break or by drop()
PollerUnlock ==
    /\ mx.ppc = "read"
    /\ mx' = [mx EXCEPT !.inside = @ \ {Poller},
                        !.ppc = IF ~mx.seen.received_callback THEN "loop"
                                ELSE IF mx.seen.error # NONE THEN "failed"
                                ELSE "after"]
    /\ UNCHANGED mutexKeeps

\* login.rs 262: let auth_state = state.lock().await, after the loop
FinalLock ==
    /\ mx.ppc = "after"
    /\ lock_free(mx.inside)
    /\ mx' = [mx EXCEPT !.ppc = "finallocked", !.inside = @ \cup {Poller}]
    /\ UNCHANGED mutexKeeps

\* login.rs 263: read session_cookie
FinalRead ==
    /\ mx.ppc = "finallocked"
    /\ mx' = [mx EXCEPT !.ppc = "done", !.seen = mx.state, !.seenWhole = mx.whole]
    /\ UNCHANGED mutexKeeps

\* login.rs 299-300: the guard lives until oauth_login_with_callback returns
FinalUnlock ==
    /\ mx.ppc = "done"
    /\ mx' = [mx EXCEPT !.ppc = "returned", !.inside = @ \ {Poller}]
    /\ UNCHANGED mutexKeeps

NextMutex ==
    \/ \E t \in Handlers : HandlerLock(t)
    \/ \E t \in Handlers : HandlerWriteOutcome(t)
    \/ \E t \in Handlers : HandlerWriteCompleted(t)
    \/ \E t \in Handlers : HandlerUnlock(t)
    \/ PollerTimeout
    \/ PollerLock
    \/ PollerRead
    \/ PollerUnlock
    \/ FinalLock
    \/ FinalRead
    \/ FinalUnlock

SpecMutex == InitMutex /\ [][NextMutex]_vars

\* ------------------------------------------------------------------------
\* C25: the callback handler and the wait loop never hold AuthState at the
\* same time; a handler writes its outcome and the completed flag while it
\* holds the guard; so whatever the wait loop reads is the AuthState left by
\* whole requests, never completed = true without the error or payload of
\* the request that set it.
\* ------------------------------------------------------------------------
C25_MutexProtectsAuthState ==
    /\ Cardinality(mx.inside) <= 1
    /\ \A t \in Handlers : mx.hpc[t] # "idle" => t \in mx.inside
    /\ mx.ppc \in {"locked", "read", "finallocked", "done"} => Poller \in mx.inside
    /\ mx.seen = mx.seenWhole

\* the wait loop has read an AuthState written by two requests, one with an
\* error and one with an api_key, while a third request waits for the lock
C25_Witness ==
    /\ mx.ppc = "read" /\ mx.inside = {Poller}
    /\ mx.seen = [received_callback |-> TRUE, session_cookie |-> K2,
                  error |-> "access_denied"]
    /\ mx.req["conn1"].error # NONE /\ mx.req["conn2"].api_key # NONE

\* ------------------------------------------------------------------------
\* C26: in an OAuth attempt the listener task is aborted on every way out of
\* the wait loop (completion, reported error, timeout): while the listener
\* runs login validates, exchanges and persists nothing, and no attempt is
\* past the loop or has returned with the listener still running.
\* ------------------------------------------------------------------------
PastLoop ==
    {"TimedOut", "Error", "DirectApiKeyReceived", "SessionReceived",
     "NoPayloadFallback", "Authenticated", "Failed"}

C26_ListenerAborted ==
    /\ [](pc \in PastLoop => listener # "running")
    /\ []((pc \in PastLoop /\ h.why # "bind_failed") => listener = "aborted")
    /\ [][listener' = "running" =>
            /\ h'.validated = h.validated /\ h'.exchanged = h.exchanged
            /\ h'.wrote = h.wrote /\ h'.prompted = h.prompted
            /\ config' = config /\ disk' = disk]_vars

\* the wait loop found a reported error, aborted the listener, and login
\* failed with that error
C26_Witness ==
    /\ pc = "Failed" /\ h.why = "oauth_error"
    /\ auth.error # NONE /\ listener = "aborted"

\* ------------------------------------------------------------------------
\* C27: when the validation call of the already-authenticated check fails
\* (network error), login treats the stored key as not valid and goes on to
\* the login flow; when the validation call for a supplied, entered or
\* callback-delivered key fails, login fails with a validation error and
\* the store and the file are as they were when login started.
\* ------------------------------------------------------------------------
C27_NetworkFailure ==
    /\ [][(pc = "CheckExisting" /\ h'.existing = "error") => pc' = "NeedsLogin"]_vars
    /\ [](h.existing = "error" => h.why # "already_valid")
    /\ [][(h'.why = "validation_error" /\ h.why # "validation_error") =>
            /\ pc \in {"DirectKey", "Headless", "DirectApiKeyReceived",
                        "NoPayloadFallback"}
            /\ pc' = "Failed"
            /\ config' = config /\ disk' = disk /\ h'.wrote = {}]_vars
    /\ [](h.why = "validation_error" =>
            (pc = "Failed" /\ config = h.cfg0 /\ disk = h.disk0))

\* the already-authenticated check met a network failure, login went on to
\* validate the supplied key, and that call failed too
C27_Witness ==
    /\ h.existing = "error" /\ h.why = "validation_error"
    /\ lg.key # NONE /\ pc = "Failed"
    /\ <<lg.url, lg.key>> \in h.validated
    /\ config = h.cfg0

\* ------------------------------------------------------------------------
\* C28: a successful login leaves every entry whose URL differs from the
\* server logged in to as it was (same URL, same key); in particular, when
\* the reference is a raw URL that matches no entry, the key is stored under
\* a name that no entry with a different URL carries.
\* ------------------------------------------------------------------------
C28_OtherServersUntouched ==
    (pc = "Authenticated" /\ h.wrote # {}) =>
       \A n \in DOMAIN h.cfg0.servers :
          h.cfg0.servers[n].url # lg.url =>
             (n \in DOMAIN config.servers /\ config.servers[n] = h.cfg0.servers[n])

\* ------------------------------------------------------------------------
\* C29: the already-authenticated check sends a stored key only to the URL
\* of the entry the key is stored for: the URL and the key of that
\* validation request are the URL and the key of one entry of the store
\* (a key taken from RICOCHET_API_KEY is not a stored key).
\* ------------------------------------------------------------------------
C29_KeySentToItsOwnServer ==
    \A c \in h.checked :
       \/ env.api_key # NONE /\ c[2] = env.api_key
       \/ \E n \in DOMAIN h.cfg0.servers :
             h.cfg0.servers[n] = [url |-> c[1], api_key |-> c[2]]

\* ------------------------------------------------------------------------
\* C30: the wait loop reports a timeout only when no callback has been
\* recorded: a check made while AuthState is completed goes on with the
\* recorded outcome, whatever the elapsed time.
\* ------------------------------------------------------------------------
C30_TimeoutOnlyWithoutCallback ==
    [][(LoopCheck /\ auth.received_callback) => pc' # "TimedOut"]_vars

====
